---------------------------- MODULE Spec2Model ----------------------------
(***************************************************************************)
(* A model of the self-play trainer of AgeOfTrashcan (src/ml/selfplay):    *)
(* the league pool (league.py), the training loop with its divergence      *)
(* guard, checkpoints and entropy schedule (trainer.py), generalized       *)
(* advantage estimation and the PPO update loop (ppo.py), and masked       *)
(* action sampling (model.py) over the observations of the mock            *)
(* environment (env.py).                                                   *)
(*                                                                         *)
(* Floating-point quantities are modelled as exact rationals <<n, d>> with *)
(* d > 0 in lowest terms; win-rates are integers in hundredths (55 is      *)
(* 0.55) and elo ratings are integers.                                     *)
(***************************************************************************)
EXTENDS Integers, Sequences, FiniteSets, TLC

VARIABLES
    \* ---- SelfPlayTrainer (trainer.py) ----
    cfg,                   \* the OvernightConfig fields the loop reads
    pc,                    \* "loop" while train() iterates, "done" after it
    global_step,           \* self.global_step
    last_good_checkpoint,  \* <<>> for None, <<step>> for checkpoint_<step>.pt
    model,                 \* self.model parameters (a version number)
    optimizer,             \* self.optimizer state (a version number)
    checkpoints,           \* the files written by _save_checkpoint
    entropy_coef,          \* cfg.ppo.entropy_coef, a rational
    iteration,             \* number of loop iterations run so far
    diverged,              \* the last iteration's metrics held a NaN/Inf
    pre_model,             \* parameters when the last iteration started
    pre_optimizer,         \* optimizer state when the last iteration started
    log_lines,             \* "[step=...]" progress lines printed
    alerts,                \* "[alert]" lines printed
    evals,                 \* calls of evaluate()
    lane_steps,            \* env.step calls per lane in the last rollout
    reset_seeds,           \* the seeds given to env.reset, in call order
    \* ---- LeaguePool (league.py) ----
    entries,               \* self.entries
    last_call,             \* the last league call and what it returned
    \* ---- compute_gae (ppo.py) ----
    gae_pc,                \* "ready" before the first call, "done" after a call
    gae_batch,             \* the arguments of the last call
    gae_result,            \* what the last call returned
    gae_prev_batch,        \* the arguments of the call before it
    gae_prev_result,       \* what the call before it returned
    \* ---- PPOUpdater.update (ppo.py) ----
    ppo_pc,                \* position in update()
    ppo_cfg,               \* ppo_epochs, minibatch_size and the batch size
    ppo_epoch,             \* index of the current epoch
    ppo_start,             \* start offset of the next mini-batch
    ppo_metrics,           \* the metrics dictionary (kl and updates)
    ppo_optimizer_steps,   \* calls of optimizer.step() so far
    ppo_trace,             \* the mini-batches processed so far
    \* ---- sample_action (model.py) on MockSelfPlayEnv (env.py) ----
    env_state,             \* the MockEnvState fields the masks are built from
    obs_masks,             \* the masks of the observation last sampled on
    sampled,               \* the indices sample_action returned for it
    sample_mode,           \* "none", "stochastic" or "deterministic"
    \* ---- SelfPlayTrainer.evaluate (trainer.py) on MockSelfPlayEnv ----
    eval_pc,               \* "idle", "match" inside the loops, "returned"
    eval_run,              \* 1 for the first call of evaluate(), 2 for the second
    eval_idx,              \* idx, the match being played
    eval_env,              \* env.state and the generator of that match
    eval_wins,             \* wins
    eval_trace,            \* what every env.step of this call took and gave
    eval_winrate,          \* what this call returned
    eval_prev              \* trace and win-rate of the call before it

trainerVars == <<cfg, pc, global_step, last_good_checkpoint, model, optimizer,
                 checkpoints, entropy_coef, iteration, diverged, pre_model,
                 pre_optimizer, log_lines, alerts, evals, lane_steps, reset_seeds>>
leagueVars == <<entries, last_call>>
gaeVars == <<gae_pc, gae_batch, gae_result, gae_prev_batch, gae_prev_result>>
ppoVars == <<ppo_pc, ppo_cfg, ppo_epoch, ppo_start, ppo_metrics,
             ppo_optimizer_steps, ppo_trace>>
samplerVars == <<env_state, obs_masks, sampled, sample_mode>>
evalVars == <<eval_pc, eval_run, eval_idx, eval_env, eval_wins, eval_trace,
              eval_winrate, eval_prev>>

vars == <<trainerVars, leagueVars, gaeVars, ppoVars, samplerVars, evalVars>>

----------------------------------------------------------------------------
(* Exact rational arithmetic standing in for Python/NumPy floats.          *)

Abs(x) == IF x < 0 THEN -x ELSE x

Min2(a, b) == IF a < b THEN a ELSE b

Max2(a, b) == IF a > b THEN a ELSE b

\* Euclid's algorithm, on values
Gcd(a, b) ==
    LET euclid[x \in Nat, y \in Nat] == IF y = 0 THEN x ELSE euclid[y, x % y]
    IN  euclid[a, b]

\* the operators below take their arguments through a function, so that
\* each argument is evaluated once
Rat(n, d) ==
    LET reduce[x \in Int, y \in Int, g \in Nat] ==
            IF y < 0 THEN <<(-x) \div g, (-y) \div g>> ELSE <<x \div g, y \div g>>
        ratio[x \in Int, y \in Int] == reduce[x, y, Gcd(Abs(x), Abs(y))]
    IN  ratio[n, d]

RInt(n) == <<n, 1>>

\* sums over the least common denominator and products reduced crosswise,
\* which keeps the intermediate integers small
RAdd(a, b) ==
    LET sum[x \in Int \X Int, y \in Int \X Int, g \in Nat] ==
            Rat(x[1] * (y[2] \div g) + y[1] * (x[2] \div g), (x[2] \div g) * y[2])
        add[x \in Int \X Int, y \in Int \X Int] == sum[x, y, Gcd(x[2], y[2])]
    IN  add[a, b]

RNeg(a) == <<-a[1], a[2]>>

RSub(a, b) == RAdd(a, RNeg(b))

RMul(a, b) ==
    LET product[x \in Int \X Int, y \in Int \X Int, g1 \in Nat, g2 \in Nat] ==
            Rat((x[1] \div g1) * (y[1] \div g2), (x[2] \div g2) * (y[2] \div g1))
        mul[x \in Int \X Int, y \in Int \X Int] ==
            product[x, y, Gcd(Abs(x[1]), y[2]), Gcd(Abs(y[1]), x[2])]
    IN  mul[a, b]

RLess(a, b) ==
    LET below[x \in Int \X Int, y \in Int \X Int, g \in Nat] ==
            x[1] * (y[2] \div g) < y[1] * (x[2] \div g)
        less[x \in Int \X Int, y \in Int \X Int] == below[x, y, Gcd(x[2], y[2])]
    IN  less[a, b]

RMin(a, b) ==
    LET smaller[x \in Int \X Int, y \in Int \X Int] == IF RLess(y, x) THEN y ELSE x
    IN  smaller[a, b]

RMax(a, b) ==
    LET larger[x \in Int \X Int, y \in Int \X Int] == IF RLess(x, y) THEN y ELSE x
    IN  larger[a, b]

RLeq(a, b) == ~RLess(b, a)

\* np.clip(x, lo, hi)
Clip(x, lo, hi) == RMax(lo, RMin(x, hi))

----------------------------------------------------------------------------
(* LeaguePool (league.py).  An entry is a LeagueEntry: checkpoint_path is   *)
(* the step in the checkpoint's file name, winrate_vs_smart in hundredths.  *)

KeepTopN == 1            \* keep_top_n of the pool (8 in the trainer)
PromoteMinWinrate == 55  \* 0.55
EloBase == 1000          \* 1000.0
EloScale == 4            \* 400.0 per unit of win-rate, i.e. 4 per hundredth
EloPivot == 50           \* 0.5
PoolSlack == 3           \* add_checkpoint keeps keep_top_n * 3 entries

LeagueEntry(path, steps, winrate) ==
    [checkpoint_path |-> path,
     steps |-> steps,
     elo |-> EloBase + Max2(0, (winrate - EloPivot) * EloScale),
     winrate_vs_smart |-> winrate]

\* the LeagueEntry objects
LeagueEntries == [checkpoint_path : Int, steps : Int, elo : Int, winrate_vs_smart : Int]

\* key(a) > key(b) for the sort key (elo, winrate_vs_smart, steps)
KeyGreater(a, b) ==
    \/ a.elo > b.elo
    \/ a.elo = b.elo /\ a.winrate_vs_smart > b.winrate_vs_smart
    \/ a.elo = b.elo /\ a.winrate_vs_smart = b.winrate_vs_smart /\ a.steps > b.steps

\* x put into the descending list s behind every element that does not rank
\* below it (list.sort is stable, also with reverse=True)
InsertDesc(s, x) ==
    LET insert[t \in Seq(LeagueEntries), y \in LeagueEntries] ==
            IF t = <<>> THEN <<y>>
            ELSE IF KeyGreater(y, Head(t)) THEN <<y>> \o t
            ELSE <<Head(t)>> \o insert[Tail(t), y]
    IN  insert[s, x]

SortDesc(s) ==
    LET sort[t \in Seq(LeagueEntries)] ==
            IF t = <<>> THEN <<>>
            ELSE InsertDesc(sort[SubSeq(t, 1, Len(t) - 1)], t[Len(t)])
    IN  sort[s]

Prefix(s, n) == SubSeq(s, 1, Min2(Max2(n, 0), Len(s)))

Contains(s, x) == \E i \in 1..Len(s) : s[i] = x

RECURSIVE MinOf(_)
MinOf(s) == IF Len(s) = 1 THEN s[1] ELSE Min2(s[1], MinOf(Tail(s)))

\* add_checkpoint: the new list and the entry returned
AddCheckpoint_Uncapped(es, path, steps, winrate) ==
    LET entry == LeagueEntry(path, steps, winrate)
    IN  [entries |-> SortDesc(Append(es, entry)), entry |-> entry]

AddCheckpoint(es, path, steps, winrate) ==
    LET entry == LeagueEntry(path, steps, winrate)
        sorted == SortDesc(Append(es, entry))
    IN  [entries |-> IF Len(sorted) > KeepTopN * PoolSlack
                     THEN Prefix(sorted, KeepTopN * PoolSlack)
                     ELSE sorted,
         entry |-> entry]

\* the slice bound of promote_if_qualified
PromoteKeep(keep, len) == Max2(keep, len)

\* the two rejection tests of promote_if_qualified
Rejects_AgainstBest(candidate, top3_baseline) ==
    \/ candidate.winrate_vs_smart < PromoteMinWinrate
    \/ /\ top3_baseline # <<>>
       /\ \E i \in 1..Len(top3_baseline) : top3_baseline[i] > candidate.winrate_vs_smart

Rejects_NonStrict(candidate, top3_baseline) ==
    \/ candidate.winrate_vs_smart < PromoteMinWinrate
    \/ top3_baseline # <<>> /\ MinOf(top3_baseline) >= candidate.winrate_vs_smart

Rejects(candidate, top3_baseline) ==
    \/ candidate.winrate_vs_smart < PromoteMinWinrate
    \/ top3_baseline # <<>> /\ MinOf(top3_baseline) > candidate.winrate_vs_smart

\* promote_if_qualified: the new list and the value returned
PromoteIfQualified(es, candidate, top3_baseline) ==
    IF Rejects(candidate, top3_baseline)
    THEN [entries |-> es, result |-> FALSE]
    ELSE LET with == IF Contains(es, candidate) THEN es ELSE Append(es, candidate)
             sorted == SortDesc(with)
         IN  [entries |-> Prefix(sorted, PromoteKeep(KeepTopN, Len(sorted))),
              result |-> TRUE]

Top(es, n) == Prefix(es, n)

WinratesOf(es) == [i \in 1..Len(es) |-> es[i].winrate_vs_smart]

\* sample_opponent: every entry a call may return ({} when it returns None)
SampleOpponent(es, current_checkpoint) ==
    IF es = <<>> THEN {}
    ELSE LET filtered == SelectSeq(es, LAMBDA e : <<e.checkpoint_path>> # current_checkpoint)
             candidates == IF filtered = <<>> THEN es ELSE filtered
             cut == Min2(4, Len(candidates))
             top == SubSeq(candidates, 1, cut)
             rest == SubSeq(candidates, cut + 1, Len(candidates))
         IN  {top[i] : i \in 1..Len(top)} \cup {rest[i] : i \in 1..Len(rest)}
               \cup {candidates[i] : i \in 1..Len(candidates)}

----------------------------------------------------------------------------
(* SelfPlayTrainer (trainer.py).                                           *)

MaxTotalSteps == 6       \* runtime.total_steps of the modelled runs
MaxAnnealSteps == 8      \* largest ppo.entropy_anneal_steps modelled

EntropyCoefInit == Rat(1, 100)   \* PPOConfig.entropy_coef = 0.01
EntropyCoefMin == Rat(1, 1000)   \* PPOConfig.entropy_coef_min = 0.001

\* win-rates evaluate() may return, in hundredths
EvalWinrates == {50, 60, 70}

Configs ==
    [rollout_horizon : {1, 2},
     num_envs : {1, 2},
     total_steps : {-1, 0, MaxTotalSteps},
     log_interval : {1, 2},
     checkpoint_every : {2, 3},
     eval_every : {2, 4},
     entropy_anneal_steps : {MaxAnnealSteps - 4, MaxAnnealSteps}]

RuntimeSeed == 1337      \* RuntimeConfig.seed

\* while self.global_step < runtime.total_steps
LoopCondition_Inclusive(step, c) == step <= c.total_steps

LoopCondition(step, c) == step < c.total_steps

\* self.global_step += runtime.rollout_horizon * runtime.num_envs
StepsPerIteration_HorizonOnly(c) == c.rollout_horizon

StepsPerIteration(c) == c.rollout_horizon * c.num_envs

\* the lanes, the indices of self.envs
Lanes(c) == 0..(c.num_envs - 1)

\* __init__: env.reset(runtime.seed + env_idx) for every lane, in order
InitialSeeds(c) == [i \in 1..c.num_envs |-> RuntimeSeed + (i - 1)]

\* the seed of env.reset for a lane that is done at step t of a rollout
ResetSeed(c, step, t, env_idx) == RuntimeSeed + step + t * c.num_envs + env_idx + 1

\* the done flags the environments return in one rollout: dones[t][env_idx]
DonePatterns(c) == [0..(c.rollout_horizon - 1) -> [Lanes(c) -> BOOLEAN]]

NoDones(c) == [t \in 0..(c.rollout_horizon - 1) |-> [l \in Lanes(c) |-> FALSE]]

\* "for env_idx, env in enumerate(self.envs)" at step t, from lane env_idx
\* on: env.step, and env.reset with a new seed if the lane is done
RECURSIVE RolloutLanes(_, _, _, _, _, _)
RolloutLanes(c, step, dones, t, env_idx, acc) ==
    IF env_idx >= c.num_envs THEN acc
    ELSE LET stepped == [acc EXCEPT !.lane_steps[env_idx] = @ + 1]
             after == IF dones[t][env_idx]
                      THEN [stepped EXCEPT !.reset_seeds =
                                Append(@, ResetSeed(c, step, t, env_idx))]
                      ELSE stepped
         IN  RolloutLanes(c, step, dones, t, env_idx + 1, after)

\* "for t in range(horizon)" of _collect_rollout, from step t on
RECURSIVE RolloutSteps(_, _, _, _, _)
RolloutSteps(c, step, dones, t, acc) ==
    IF t >= c.rollout_horizon THEN acc
    ELSE RolloutSteps(c, step, dones, t + 1, RolloutLanes(c, step, dones, t, 0, acc))

\* _collect_rollout: the env.step calls per lane and the seeds of all resets
CollectRollout(c, step, dones, seeds) ==
    RolloutSteps(c, step, dones, 0,
                 [lane_steps |-> [l \in Lanes(c) |-> 0], reset_seeds |-> seeds])

\* _anneal_entropy: the new cfg.ppo.entropy_coef
AnnealProgress(step, anneal_steps) ==
    RMin(RInt(1), Rat(step, Max2(1, anneal_steps)))

AnnealEntropy_NoFloorTerm(coef, step, anneal_steps) ==
    RMul(coef, RSub(RInt(1), AnnealProgress(step, anneal_steps)))

AnnealEntropy(coef, step, anneal_steps) ==
    LET progress == AnnealProgress(step, anneal_steps)
    IN  RAdd(RMul(coef, RSub(RInt(1), progress)), RMul(EntropyCoefMin, progress))

\* any(np.isnan(v) or np.isinf(v) for v in metrics.values())
MetricsNonFinite_Unguarded(metrics) == FALSE

MetricsNonFinite(metrics) == metrics.nonfinite

\* _save_checkpoint: the files after writing checkpoint_<step>.pt
SaveCheckpoint(files, step, m, o) ==
    [s \in DOMAIN files \cup {step} |->
        IF s = step THEN [step |-> step, model |-> m, optimizer |-> o] ELSE files[s]]

\* _rollback_checkpoint: the model parameters and optimizer state after it
RollbackCheckpoint_ModelOnly(files, last_good, m, o) ==
    IF last_good = <<>> THEN [model |-> m, optimizer |-> o]
    ELSE [model |-> files[last_good[1]].model, optimizer |-> o]

RollbackCheckpoint_ReinitWhenNone(files, last_good, m, o) ==
    IF last_good = <<>> THEN [model |-> 0, optimizer |-> 0]
    ELSE [model |-> files[last_good[1]].model,
          optimizer |-> files[last_good[1]].optimizer]

RollbackCheckpoint(files, last_good, m, o) ==
    IF last_good = <<>> THEN [model |-> m, optimizer |-> o]
    ELSE [model |-> files[last_good[1]].model,
          optimizer |-> files[last_good[1]].optimizer]

NoCall == [op |-> "none", candidate |-> LeagueEntry(0, 0, 0), baseline |-> <<>>,
           result |-> FALSE]

\* One pass through the body of the while loop of train().  metrics is what
\* ppo.update returned (nonfinite: some value is NaN or infinite; entropy_low:
\* metrics["entropy"] < entropy_floor_alert); winrate is what evaluate()
\* returns if it is called; dones are the done flags of the rollout.  The
\* update leaves new parameters and a new optimizer state, named by the
\* number of the iteration that made them.
TrainIteration(metrics, winrate, dones) ==
    /\ pc = "loop"
    /\ LoopCondition(global_step, cfg)
    /\ LET updated == iteration + 1
           rollout == CollectRollout(cfg, global_step, dones, reset_seeds)
           coef == AnnealEntropy(entropy_coef, global_step, cfg.entropy_anneal_steps)
           step == global_step + StepsPerIteration(cfg)
       IN  /\ iteration' = updated
           /\ lane_steps' = rollout.lane_steps
           /\ reset_seeds' = rollout.reset_seeds
           /\ pre_model' = model
           /\ pre_optimizer' = optimizer
           /\ entropy_coef' = coef
           /\ global_step' = step
           /\ diverged' = metrics.nonfinite
           /\ IF MetricsNonFinite(metrics)
              THEN LET restored == RollbackCheckpoint(checkpoints, last_good_checkpoint,
                                                     updated, updated)
                   IN  /\ model' = restored.model
                       /\ optimizer' = restored.optimizer
                       /\ UNCHANGED <<last_good_checkpoint, checkpoints, log_lines,
                                      alerts, evals, entries, last_call>>
              ELSE LET logs == step % cfg.log_interval = 0
                       saves == step % cfg.checkpoint_every = 0
                       evaluates == step % cfg.eval_every = 0
                       last_good == IF saves THEN <<step>> ELSE last_good_checkpoint
                       deposits == evaluates /\ last_good # <<>>
                       added == AddCheckpoint(entries, last_good[1], step, winrate)
                       baseline == WinratesOf(Top(added.entries, 3))
                       promoted == PromoteIfQualified(added.entries, added.entry, baseline)
                   IN  /\ model' = updated
                       /\ optimizer' = updated
                       /\ log_lines' = IF logs THEN log_lines + 1 ELSE log_lines
                       /\ alerts' = IF logs /\ metrics.entropy_low
                                    THEN alerts + 1 ELSE alerts
                       /\ checkpoints' = IF saves
                                         THEN SaveCheckpoint(checkpoints, step, updated, updated)
                                         ELSE checkpoints
                       /\ last_good_checkpoint' = last_good
                       /\ evals' = IF evaluates THEN evals + 1 ELSE evals
                       /\ entries' = IF deposits THEN promoted.entries ELSE entries
                       /\ last_call' = IF deposits
                                       THEN [op |-> "deposit", candidate |-> added.entry,
                                             baseline |-> baseline,
                                             result |-> promoted.result]
                                       ELSE last_call
    /\ UNCHANGED <<cfg, pc, gaeVars, ppoVars, samplerVars, evalVars>>

\* the loop condition fails: "[done] training complete"
TrainDone ==
    /\ pc = "loop"
    /\ ~LoopCondition(global_step, cfg)
    /\ pc' = "done"
    /\ UNCHANGED <<cfg, global_step, last_good_checkpoint, model, optimizer,
                   checkpoints, entropy_coef, iteration, diverged, pre_model,
                   pre_optimizer, log_lines, alerts, evals, lane_steps,
                   reset_seeds, entries, last_call,
                   gaeVars, ppoVars, samplerVars, evalVars>>

Metrics == [nonfinite : BOOLEAN, entropy_low : BOOLEAN]

\* SelfPlayTrainer(cfg): the network has the weights torch drew for it
TrainerConstructed(weights) ==
    /\ cfg \in Configs
    /\ pc = "loop"
    /\ global_step = 0
    /\ last_good_checkpoint = <<>>
    /\ model = weights
    /\ optimizer = 0
    /\ checkpoints = <<>>
    /\ entropy_coef = EntropyCoefInit
    /\ iteration = 0
    /\ diverged = FALSE
    /\ pre_model = 0
    /\ pre_optimizer = 0
    /\ log_lines = 0
    /\ alerts = 0
    /\ evals = 0
    /\ lane_steps = [l \in Lanes(cfg) |-> 0]
    /\ reset_seeds = InitialSeeds(cfg)

TrainerInit == TrainerConstructed(0)

LeagueInit ==
    /\ entries = <<>>
    /\ last_call = NoCall

----------------------------------------------------------------------------
(* The league pool called directly: add_checkpoint and promote_if_qualified *)
(* with any candidate and any baseline list.                                *)

MaxDeposits == 3         \* add_checkpoint calls in one run of the pool

\* win-rates a caller may pass in a baseline list
BaselineWinrates == {60, 62, 65}

\* baseline lists: up to three different win-rates in any order
Baselines ==
    {b \in {<<>>} \cup [1..1 -> BaselineWinrates] \cup [1..2 -> BaselineWinrates]
              \cup [1..3 -> BaselineWinrates] :
        \A i, j \in 1..Len(b) : b[i] = b[j] => i = j}

\* add_checkpoint(checkpoint_<n>, n, winrate) for the n-th deposit
LeagueAdd(winrate) ==
    /\ evals < MaxDeposits
    /\ LET added == AddCheckpoint(entries, evals + 1, evals + 1, winrate)
       IN  /\ entries' = added.entries
           /\ last_call' = [op |-> "add", candidate |-> added.entry,
                            baseline |-> <<>>, result |-> TRUE]
    /\ evals' = evals + 1
    /\ UNCHANGED <<cfg, pc, global_step, last_good_checkpoint, model, optimizer,
                   checkpoints, entropy_coef, iteration, diverged, pre_model,
                   pre_optimizer, log_lines, alerts, lane_steps, reset_seeds,
                   gaeVars, ppoVars, samplerVars, evalVars>>

\* promote_if_qualified(candidate, top3_baseline)
LeaguePromote(candidate, top3_baseline) ==
    /\ LET promoted == PromoteIfQualified(entries, candidate, top3_baseline)
       IN  /\ entries' = promoted.entries
           /\ last_call' = [op |-> "promote", candidate |-> candidate,
                            baseline |-> top3_baseline, result |-> promoted.result]
    /\ UNCHANGED <<trainerVars, gaeVars, ppoVars, samplerVars, evalVars>>

\* candidates: the entries of the pool and entries that were never added
Candidates ==
    {entries[i] : i \in 1..Len(entries)} \cup {LeagueEntry(0, 0, w) : w \in {50, 70}}

LeagueNext ==
    \/ \E winrate \in EvalWinrates : LeagueAdd(winrate)
    \/ \E candidate \in Candidates, baseline \in Baselines :
          LeaguePromote(candidate, baseline)

\* The pool as the trainer feeds it: more deposits than the pool keeps.
MaxTrainerDeposits == KeepTopN * PoolSlack + 2

\* entry = self.league.add_checkpoint(self.last_good_checkpoint,
\* self.global_step, winrate), the step larger at every deposit
DepositAdd(winrate) ==
    /\ last_call.op # "add"
    /\ evals < MaxTrainerDeposits
    /\ LET added == AddCheckpoint(entries, evals + 1, evals + 1, winrate)
       IN  /\ entries' = added.entries
           /\ last_call' = [op |-> "add", candidate |-> added.entry,
                            baseline |-> <<>>, result |-> TRUE]
    /\ evals' = evals + 1
    /\ UNCHANGED <<cfg, pc, global_step, last_good_checkpoint, model, optimizer,
                   checkpoints, entropy_coef, iteration, diverged, pre_model,
                   pre_optimizer, log_lines, alerts, lane_steps, reset_seeds,
                   gaeVars, ppoVars, samplerVars, evalVars>>

\* self.league.promote_if_qualified(entry, [member.winrate_vs_smart for
\* member in self.league.top(3)])
DepositPromote ==
    /\ last_call.op = "add"
    /\ LeaguePromote(last_call.candidate, WinratesOf(Top(entries, 3)))

DepositNext ==
    \/ \E winrate \in EvalWinrates : DepositAdd(winrate)
    \/ DepositPromote

----------------------------------------------------------------------------
(* compute_gae (ppo.py).  A batch holds rewards, values and dones indexed   *)
(* [step][lane] over steps 0..horizon-1, and the bootstrap next_value per   *)
(* lane; its entries are integers, the results rationals.                   *)

MaxGaeHorizon == 2       \* longest horizon of a modelled batch
NumLanes == 2            \* lanes of a modelled batch
Spike == 5               \* what a second call adds to one reward or value

\* the gamma and gae_lambda arguments of the modelled calls (the
\* configuration's defaults are 0.995 and 0.95)
Gamma == Rat(9, 10)

GaeLambda == Rat(1, 2)

GaeLanes == 0..(NumLanes - 1)

GaeSteps(batch) == 0..(batch.horizon - 1)

\* delta = rewards[step] + gamma * value_next * non_terminal - values[step]
GaeDelta_NoMask(reward, value, value_next, non_terminal) ==
    RSub(RAdd(reward, RMul(Gamma, value_next)), value)

GaeDelta(reward, value, value_next, non_terminal) ==
    RSub(RAdd(reward, RMul(RMul(Gamma, value_next), non_terminal)), value)

\* last_gae = delta + gamma * gae_lambda * non_terminal * last_gae
GaeAccumulate_NoMask(delta, non_terminal, last_gae) ==
    RAdd(delta, RMul(RMul(Gamma, GaeLambda), last_gae))

GaeAccumulate(delta, non_terminal, last_gae) ==
    RAdd(delta, RMul(RMul(RMul(Gamma, GaeLambda), non_terminal), last_gae))

\* the body of "for step in reversed(range(horizon))", from step down to 0
RECURSIVE GaeLoop(_, _, _, _)
GaeLoop(batch, step, last_gae, advantages) ==
    IF step < 0 THEN advantages
    ELSE LET non_terminal == [l \in GaeLanes |-> RInt(1 - batch.dones[step][l])]
             value_next == IF step = batch.horizon - 1
                           THEN [l \in GaeLanes |-> RInt(batch.next_value[l])]
                           ELSE [l \in GaeLanes |-> RInt(batch.values[step + 1][l])]
             delta == [l \in GaeLanes |->
                          GaeDelta(RInt(batch.rewards[step][l]), RInt(batch.values[step][l]),
                                   value_next[l], non_terminal[l])]
             gae == [l \in GaeLanes |-> GaeAccumulate(delta[l], non_terminal[l], last_gae[l])]
         IN  GaeLoop(batch, step - 1, gae, [advantages EXCEPT ![step] = gae])

\* compute_gae: (advantages, returns)
ComputeGae(batch) ==
    LET zeros == [t \in GaeSteps(batch) |-> [l \in GaeLanes |-> RInt(0)]]
        advantages == GaeLoop(batch, batch.horizon - 1, [l \in GaeLanes |-> RInt(0)], zeros)
    IN  [advantages |-> advantages,
         returns |-> [t \in GaeSteps(batch) |-> [l \in GaeLanes |->
                         RAdd(advantages[t][l], RInt(batch.values[t][l]))]]]

\* the batches of the first call: any pattern of done flags, rewards and
\* values either all zero or different in every cell
GaeBatches ==
    UNION {
      {[horizon |-> h,
        dones |-> d,
        rewards |-> [t \in 0..(h - 1) |-> [l \in GaeLanes |-> rs * (1 + t + h * l)]],
        values |-> [t \in 0..(h - 1) |-> [l \in GaeLanes |-> vs * (2 + 3 * t + l)]],
        next_value |-> [l \in GaeLanes |-> vs * (11 + l)]] :
          d \in [0..(h - 1) -> [GaeLanes -> {0, 1}]], rs \in {0, 1}, vs \in {0, 1}} :
      h \in 1..MaxGaeHorizon}

NoBatch == [horizon |-> 0, dones |-> <<>>, rewards |-> <<>>, values |-> <<>>,
            next_value |-> [l \in GaeLanes |-> 0]]

NoResult == [advantages |-> <<>>, returns |-> <<>>]

\* a batch with one entry changed: a spike on a reward, a value or a
\* bootstrap value, or a done flag flipped
EditBatch(batch, field, t, l) ==
    CASE field = "rewards" ->
           [batch EXCEPT !.rewards[t][l] = @ + Spike]
      [] field = "values" ->
           [batch EXCEPT !.values[t][l] = @ + Spike]
      [] field = "dones" ->
           [batch EXCEPT !.dones[t][l] = 1 - @]
      [] field = "next_value" ->
           [batch EXCEPT !.next_value[l] = @ + Spike]

\* the first call of compute_gae
GaeCall ==
    /\ gae_pc = "ready"
    /\ gae_result' = ComputeGae(gae_batch)
    /\ gae_pc' = "done"
    /\ UNCHANGED <<gae_batch, gae_prev_batch, gae_prev_result>>
    /\ UNCHANGED <<trainerVars, leagueVars, ppoVars, samplerVars, evalVars>>

\* a second call, on a batch that differs from the first in one entry
GaeCallAgain(field, t, l) ==
    /\ gae_pc = "done"
    /\ gae_prev_batch = NoBatch
    /\ t \in GaeSteps(gae_batch)
    /\ gae_prev_batch' = gae_batch
    /\ gae_prev_result' = gae_result
    /\ gae_batch' = EditBatch(gae_batch, field, t, l)
    /\ gae_result' = ComputeGae(gae_batch')
    /\ UNCHANGED gae_pc
    /\ UNCHANGED <<trainerVars, leagueVars, ppoVars, samplerVars, evalVars>>

GaeInit ==
    /\ gae_pc = "ready"
    /\ gae_batch \in GaeBatches
    /\ gae_result = NoResult
    /\ gae_prev_batch = NoBatch
    /\ gae_prev_result = NoResult

GaeIdle ==
    /\ gae_pc = "idle"
    /\ gae_batch = NoBatch
    /\ gae_result = NoResult
    /\ gae_prev_batch = NoBatch
    /\ gae_prev_result = NoResult

GaeNext ==
    \/ GaeCall
    \/ \E field \in {"rewards", "values", "dones", "next_value"},
          t \in 0..(MaxGaeHorizon - 1), l \in GaeLanes : GaeCallAgain(field, t, l)

----------------------------------------------------------------------------
(* PPOUpdater.update (ppo.py): the control of its two loops.  KL values are *)
(* in hundredths; approx_kl of a mini-batch is an input of the step.        *)

MaxEpochs == 2           \* largest ppo_epochs modelled
MaxMinibatch == 2        \* largest minibatch_size modelled
MaxBatchSize == 3        \* largest batch (horizon * num_envs) modelled

KlTarget == 3            \* PPOConfig.kl_target = 0.03
KlHardStop == 8          \* PPOConfig.kl_hard_stop = 0.08

\* approx_kl of a mini-batch: negative, between the thresholds, above both
KlValues == {-5, 5, 10}

PpoConfigs ==
    [ppo_epochs : 0..MaxEpochs,
     minibatch_size : 1..MaxMinibatch,
     batch_size : 0..MaxBatchSize]

\* where "for _ in range(ppo_epochs)" goes when epoch e is to start
EnterEpoch(c, e) ==
    IF e >= c.ppo_epochs THEN "finish"
    ELSE IF c.batch_size > 0 THEN "minibatch"
    ELSE "epoch_end"

\* metrics["kl"] += approx_kl; metrics["updates"] += 1.0
CountUpdate(metrics, kl) ==
    [kl |-> RAdd(metrics.kl, RInt(kl)), updates |-> metrics.updates + 1]

\* if approx_kl > self.cfg.kl_hard_stop: break
HardStop_Never(kl) == FALSE

HardStop(kl) == kl > KlHardStop

\* if metrics["updates"] > 0 and (metrics["kl"] / metrics["updates"]) > kl_target: break
SoftStop(metrics) ==
    /\ metrics.updates > 0
    /\ RLess(RInt(KlTarget), RMul(metrics.kl, Rat(1, metrics.updates)))

\* one pass through the body of the mini-batch loop: forward pass, loss,
\* optimizer.step(), the metrics, and the hard-stop test
PpoMiniBatch(kl) ==
    /\ ppo_pc = "minibatch"
    /\ ppo_optimizer_steps' = ppo_optimizer_steps + 1
    /\ ppo_metrics' = CountUpdate(ppo_metrics, kl)
    /\ ppo_trace' = Append(ppo_trace, [epoch |-> ppo_epoch, start |-> ppo_start, kl |-> kl])
    /\ IF HardStop(kl)
       THEN ppo_pc' = "epoch_end" /\ UNCHANGED ppo_start
       ELSE /\ ppo_start' = ppo_start + ppo_cfg.minibatch_size
            /\ ppo_pc' = IF ppo_start' < ppo_cfg.batch_size THEN "minibatch" ELSE "epoch_end"
    /\ UNCHANGED <<ppo_cfg, ppo_epoch>>
    /\ UNCHANGED <<trainerVars, leagueVars, gaeVars, samplerVars, evalVars>>

\* the soft-stop test after the mini-batch loop of an epoch
PpoEpochEnd ==
    /\ ppo_pc = "epoch_end"
    /\ IF SoftStop(ppo_metrics)
       THEN ppo_pc' = "finish" /\ UNCHANGED <<ppo_epoch, ppo_start>>
       ELSE /\ ppo_epoch' = ppo_epoch + 1
            /\ ppo_start' = 0
            /\ ppo_pc' = EnterEpoch(ppo_cfg, ppo_epoch + 1)
    /\ UNCHANGED <<ppo_cfg, ppo_metrics, ppo_optimizer_steps, ppo_trace>>
    /\ UNCHANGED <<trainerVars, leagueVars, gaeVars, samplerVars, evalVars>>

\* the averaging after the loops, and the return
PpoReturn ==
    /\ ppo_pc = "finish"
    /\ ppo_metrics' = IF ppo_metrics.updates > 0
                      THEN [ppo_metrics EXCEPT !.kl = RMul(@, Rat(1, ppo_metrics.updates))]
                      ELSE ppo_metrics
    /\ ppo_pc' = "returned"
    /\ UNCHANGED <<ppo_cfg, ppo_epoch, ppo_start, ppo_optimizer_steps, ppo_trace>>
    /\ UNCHANGED <<trainerVars, leagueVars, gaeVars, samplerVars, evalVars>>

PpoInit ==
    /\ ppo_cfg \in PpoConfigs
    /\ ppo_pc = EnterEpoch(ppo_cfg, 0)
    /\ ppo_epoch = 0
    /\ ppo_start = 0
    /\ ppo_metrics = [kl |-> RInt(0), updates |-> 0]
    /\ ppo_optimizer_steps = 0
    /\ ppo_trace = <<>>

PpoIdle ==
    /\ ppo_cfg = [ppo_epochs |-> 0, minibatch_size |-> 1, batch_size |-> 0]
    /\ ppo_pc = "idle"
    /\ ppo_epoch = 0
    /\ ppo_start = 0
    /\ ppo_metrics = [kl |-> RInt(0), updates |-> 0]
    /\ ppo_optimizer_steps = 0
    /\ ppo_trace = <<>>

PpoNext ==
    \/ \E kl \in KlValues : PpoMiniBatch(kl)
    \/ PpoEpochEnd
    \/ PpoReturn

----------------------------------------------------------------------------
(* sample_action (model.py) on the observations of MockSelfPlayEnv (env.py)*)
(* as _collect_rollout and evaluate (trainer.py) call it.  Logit vectors    *)
(* and masks are functions over 0..dim-1.  Of the environment only what     *)
(* _build_observation reads for the masks is kept: own_age, and own_mana    *)
(* as 0 or 120 (below or at the REPAIR_BASE price); whether gold or mana    *)
(* suffices for an action and whether the match ended are left open.        *)

ActionDim == 8           \* len(ACTIONS), ModelConfig.action_dim
UnitDim == 2             \* ModelConfig.unit_dim of the modelled network
TurretDim == 2           \* ModelConfig.turret_dim of the modelled network
SlotDim == 2             \* ModelConfig.slot_dim of the modelled network
MaxAge == 6              \* own_age < 6 to age up
RepairMana == 120        \* own_mana >= 120 to repair
FloatMin == -1000        \* torch.finfo(dtype).min, below every logit
ExpUnderflow == -104     \* exp(x) is 0.0 in float32 for x below this

Heads == {"action_type", "unit", "turret", "buy_slot", "sell_slot"}

HeadDim(h) ==
    CASE h = "action_type" -> ActionDim
      [] h = "unit" -> UnitDim
      [] h = "turret" -> TurretDim
      [] h = "buy_slot" -> SlotDim
      [] h = "sell_slot" -> SlotDim

Ones(n) == [i \in 0..(n - 1) |-> 1]

Zeros(n) == [i \in 0..(n - 1) |-> 0]

\* MockEnvState(): the state after construction and after reset
MockEnvState == [own_age |-> 1, own_mana |-> 0]

\* _build_observation: the five masks
BuildObservation(state) ==
    [action_type |-> [i \in 0..(ActionDim - 1) |->
                        CASE i = 2 -> IF state.own_age < MaxAge THEN 1 ELSE 0
                          [] i = 6 -> 0
                          [] i = 7 -> IF state.own_mana >= RepairMana THEN 1 ELSE 0
                          [] OTHER -> 1],
     unit |-> Ones(UnitDim),
     turret |-> Ones(TurretDim),
     buy_slot |-> Ones(SlotDim),
     sell_slot |-> Zeros(SlotDim)]

\* masked_logits: torch.where(mask > 0, logits, finfo.min)
MaskedLogits(logits, mask) ==
    [i \in DOMAIN logits |-> IF mask[i] > 0 THEN logits[i] ELSE FloatMin]

MaxLogit(logits) == CHOOSE m \in {logits[i] : i \in DOMAIN logits} :
                        \A i \in DOMAIN logits : logits[i] <= m

\* the logits of one head: a tensor of the head's width
LogitVectors ==
    [0..(ActionDim - 1) -> Int] \cup [0..(UnitDim - 1) -> Int]
        \cup [0..(TurretDim - 1) -> Int] \cup [0..(SlotDim - 1) -> Int]

\* torch.argmax: the first index of a maximal value
ArgMax(logits) ==
    LET first[v \in LogitVectors, m \in Int] ==
            CHOOSE i \in DOMAIN v :
                /\ v[i] = m
                /\ \A j \in DOMAIN v : v[j] = m => i <= j
        arg[v \in LogitVectors] == first[v, MaxLogit(v)]
    IN  arg[logits]

\* Categorical(logits=...).sample(): the indices of non-zero probability,
\* exp(logit - logsumexp) > 0
Support(logits) ==
    {i \in DOMAIN logits : logits[i] - MaxLogit(logits) > ExpUnderflow}

\* the index one head of sample_action may return
SampleHead(logits, mask, deterministic) ==
    LET masked == MaskedLogits(logits, mask)
    IN  IF deterministic THEN {ArgMax(masked)} ELSE Support(masked)

\* the logits of the network for one head: all different, the largest at
\* index dim - 1 - shift
ModelLogits(shift, dim) == [i \in 0..(dim - 1) |-> (i + shift) % dim]

\* the observation is turned into tensors and sample_action picks an index
\* for every head (_collect_rollout: deterministic=False, evaluate: True)
SampleAction(deterministic, shift) ==
    /\ sample_mode = "none"
    /\ LET masks == BuildObservation(env_state)
           Pick(h) == SampleHead(ModelLogits(shift, HeadDim(h)), masks[h], deterministic)
       IN  /\ obs_masks' = masks
           /\ \E action_idx \in Pick("action_type"), unit_idx \in Pick("unit"),
                 turret_idx \in Pick("turret"), buy_slot_idx \in Pick("buy_slot"),
                 sell_slot_idx \in Pick("sell_slot") :
                 sampled' = [h \in Heads |->
                                CASE h = "action_type" -> action_idx
                                  [] h = "unit" -> unit_idx
                                  [] h = "turret" -> turret_idx
                                  [] h = "buy_slot" -> buy_slot_idx
                                  [] h = "sell_slot" -> sell_slot_idx]
    /\ sample_mode' = IF deterministic THEN "deterministic" ELSE "stochastic"
    /\ UNCHANGED env_state
    /\ UNCHANGED <<trainerVars, leagueVars, gaeVars, ppoVars, evalVars>>

\* _indices_to_action and env.step for the sampled action; when the match
\* is over the lane is reset (the rollout) or a new match starts (evaluate)
EnvStep(affordable, mana_filled, done) ==
    /\ sample_mode # "none"
    /\ LET action_idx == sampled["action_type"]
           aged == IF action_idx = 2 /\ env_state.own_age < MaxAge /\ affordable
                   THEN env_state.own_age + 1 ELSE env_state.own_age
           repaired == IF action_idx = 7 /\ env_state.own_mana >= RepairMana
                       THEN env_state.own_mana - RepairMana ELSE env_state.own_mana
           mana == IF mana_filled THEN RepairMana ELSE repaired
       IN  env_state' = IF done THEN MockEnvState
                        ELSE [own_age |-> aged, own_mana |-> mana]
    /\ sample_mode' = "none"
    /\ UNCHANGED <<obs_masks, sampled>>
    /\ UNCHANGED <<trainerVars, leagueVars, gaeVars, ppoVars, evalVars>>

SamplerInit ==
    /\ env_state = MockEnvState
    /\ obs_masks = BuildObservation(MockEnvState)
    /\ sampled = [h \in Heads |-> 0]
    /\ sample_mode = "none"

SamplerIdle == SamplerInit

SamplerNext ==
    \/ \E deterministic \in BOOLEAN, shift \in 0..(ActionDim - 1) :
          SampleAction(deterministic, shift)
    \/ \E affordable \in BOOLEAN, mana_filled \in BOOLEAN, done \in BOOLEAN :
          EnvStep(affordable, mana_filled, done)


----------------------------------------------------------------------------
(* MockSelfPlayEnv in full (env.py) and SelfPlayTrainer.evaluate            *)
(* (trainer.py).  Float fields are rationals.  The network is a function    *)
(* of its parameters, the observation and the dropout masks drawn in the    *)
(* forward pass; the generator of the environment is a function of its      *)
(* seed and the number of draws made.                                       *)

MaxTicks == 2            \* max_ticks of the modelled matches (2400 by default)
EvalMatches == 2         \* runtime.eval_matches of the modelled runs (200)
EvalSeedOffset == 500000 \* evaluate() resets match idx with seed + 500_000 + idx

\* nn.Module.training: True after construction, and nothing in the
\* repository calls model.eval() or model.train()
ModuleTraining == TRUE

\* what the dropout layers of one forward pass may do to the logits
DropoutMasks == {0, 1}

\* np.random.default_rng(seed): the n-th uniform(0.0, 0.6) it draws
RngUniform(seed, n) == Rat((seed + 2 * n) % 6, 10)

\* a float field
Floats == Int \X Int

\* MockSelfPlayEnv: the fields of MockEnvState that step() reads, the
\* generator (its seed and the draws made) and the two last_damage fields
MockEnvStates ==
    [seed : Int, draws : Nat, tick : Nat,
     own_base_hp : Floats, opp_base_hp : Floats,
     own_units : Floats, opp_units : Floats,
     own_gold : Floats, own_mana : Floats,
     own_age : Nat, own_mana_level : Nat,
     last_damage_to_opp : Floats, last_damage_to_self : Floats]

\* the mask of one head: a list of 0 and 1 of the head's width
MaskVectors == UNION {[0..(HeadDim(h) - 1) -> {0, 1}] : h \in Heads}

\* Observation: the fields the forward pass and sample_action read
Observations ==
    [tick : Nat, static_state : Seq(Floats), event_sequence : Seq(Floats),
     masks : [action_type : MaskVectors, unit : MaskVectors, turret : MaskVectors,
              buy_slot : MaskVectors, sell_slot : MaskVectors]]

\* reset(seed): a new generator and MockEnvState()
EnvReset(seed) ==
    [seed |-> seed, draws |-> 0, tick |-> 0,
     own_base_hp |-> RInt(1000), opp_base_hp |-> RInt(1000),
     own_units |-> RInt(0), opp_units |-> RInt(0),
     own_gold |-> RInt(150), own_mana |-> RInt(0),
     own_age |-> 1, own_mana_level |-> 0,
     last_damage_to_opp |-> RInt(0), last_damage_to_self |-> RInt(0)]

\* the branch of step() for the action: the state and illegal_penalty
EnvApplyAction(state, action) ==
  LET branch[st \in MockEnvStates, action_type \in Int] ==
    LET illegal == [state |-> st, illegal_penalty |-> Rat(-1, 5)]
        legal(new) == [state |-> new, illegal_penalty |-> RInt(0)]
    IN  CASE action_type = 1 ->
               IF RLeq(RInt(25), st.own_gold)
               THEN legal([st EXCEPT !.own_gold = RSub(@, RInt(25)),
                                     !.own_units = RAdd(@, Rat(5, 4))])
               ELSE illegal
          [] action_type = 2 ->
               IF st.own_age < MaxAge /\ RLeq(RInt(350 + st.own_age * 180), st.own_gold)
               THEN legal([st EXCEPT !.own_gold = RSub(@, RInt(350 + st.own_age * 180)),
                                     !.own_age = @ + 1])
               ELSE illegal
          [] action_type = 3 ->
               IF RLeq(RInt(120 + st.own_mana_level * 80), st.own_gold)
               THEN legal([st EXCEPT !.own_gold = RSub(@, RInt(120 + st.own_mana_level * 80)),
                                     !.own_mana_level = @ + 1])
               ELSE illegal
          [] action_type = 7 ->
               IF RLeq(RInt(RepairMana), st.own_mana)
               THEN legal([st EXCEPT !.own_mana = RSub(@, RInt(RepairMana)),
                                     !.own_base_hp = RMin(RInt(1000), RAdd(@, RInt(65)))])
               ELSE illegal
          [] OTHER -> legal(st)
  IN  branch[state, action]

\* _simulate_opponent_policy
SimulateOpponentPolicy(state) ==
  LET recruit[st \in MockEnvStates, drawn \in Floats] ==
          [st EXCEPT !.draws = @ + 1,
                     !.opp_units = IF st.tick % 240 = 0 THEN RAdd(drawn, RInt(3)) ELSE drawn]
      policy[st \in MockEnvStates] ==
          recruit[st, RAdd(st.opp_units, RAdd(Rat(7, 10), RngUniform(st.seed, st.draws)))]
  IN  policy[state]

\* _simulate_battle
SimulateBattle(state) ==
  LET damage[st \in MockEnvStates, own \in Floats, opp \in Floats,
             to_opp \in Floats, to_self \in Floats] ==
          [st EXCEPT !.own_units = own, !.opp_units = opp,
                     !.last_damage_to_opp = to_opp, !.last_damage_to_self = to_self,
                     !.opp_base_hp = RMax(RInt(0), RSub(@, to_opp)),
                     !.own_base_hp = RMax(RInt(0), RSub(@, to_self))]
      losses[st \in MockEnvStates, own \in Floats, opp \in Floats] ==
          damage[st, own, opp,
                 RMax(RInt(0), RSub(RMul(own, Rat(14, 10)), RMul(opp, Rat(4, 10)))),
                 RMax(RInt(0), RSub(RMul(opp, Rat(12, 10)), RMul(own, Rat(35, 100))))]
      fight[st \in MockEnvStates, clash \in Floats] ==
          losses[st,
                 RMax(RInt(0), RSub(st.own_units, RMul(clash, Rat(55, 100)))),
                 RMax(RInt(0), RSub(st.opp_units, RMul(clash, Rat(6, 10))))]
      battle[st \in MockEnvStates] == fight[st, RMin(st.own_units, st.opp_units)]
  IN  battle[state]

\* _build_observation: static[0..11], the three sequence features that vary,
\* and the five masks
BuildFullObservation(state) ==
  LET build[st \in MockEnvStates] ==
    LET unit == RInt(1)
        zero == RInt(0)
        div(x, n) == RMul(x, Rat(1, n))
    IN  [tick |-> st.tick,
         static_state |->
            <<Clip(Rat(st.tick, 1200), zero, unit),
              Clip(Rat(st.tick, 36000), zero, unit),
              Clip(div(st.own_gold, 10000), zero, unit),
              Clip(div(st.own_mana, 5000), zero, unit),
              Clip(Rat(st.own_age, 6), zero, unit),
              Clip(Rat(st.own_mana_level, 40), zero, unit),
              Clip(div(st.own_units, 40), zero, unit),
              Clip(div(st.opp_units, 40), zero, unit),
              Clip(div(st.own_base_hp, 1000), zero, unit),
              Clip(div(st.opp_base_hp, 1000), zero, unit),
              Clip(div(RSub(st.own_units, st.opp_units), 50), RInt(-1), unit),
              Clip(div(RSub(st.own_base_hp, st.opp_base_hp), 1000), RInt(-1), unit)>>,
         event_sequence |->
            <<Clip(div(RSub(st.last_damage_to_opp, st.last_damage_to_self), 20),
                   RInt(-1), unit),
              Clip(div(st.last_damage_to_opp, 200), zero, unit)>>,
         masks |-> BuildObservation([own_age |-> st.own_age,
                                     own_mana |-> IF RLeq(RInt(RepairMana), st.own_mana)
                                                  THEN RepairMana ELSE 0])]
  IN  build[state]

\* step(action): the new state, the reward, done, info and the observation
EnvStepFull(state, action, ticks) ==
  LET income[fought \in MockEnvStates] ==
          [fought EXCEPT
              !.tick = @ + 1,
              !.own_gold = RAdd(@, RAdd(RInt(8), Rat(fought.own_age * 14, 10))),
              !.own_mana = RAdd(@, Rat(fought.own_mana_level * 8, 10))]
      outcome[prev \in MockEnvStates, st \in MockEnvStates,
              illegal_penalty \in Floats, max_ticks \in Int] ==
    LET pos(x) == RMax(RInt(0), x)
        shaped ==
            RAdd(RMul(pos(RSub(prev.opp_units, st.opp_units)), Rat(12, 100)),
            RAdd(RNeg(RMul(pos(RSub(prev.own_units, st.own_units)), Rat(1, 10))),
            RAdd(RMul(pos(RSub(prev.opp_base_hp, st.opp_base_hp)), Rat(2, 100)),
            RAdd(RNeg(RMul(pos(RSub(prev.own_base_hp, st.own_base_hp)), Rat(2, 100))),
            RAdd(IF st.own_age > prev.own_age /\ RLess(RInt(550), st.own_base_hp)
                 THEN Rat(1, 5) ELSE RInt(0),
            RAdd(RMul(RSub(st.own_units, st.opp_units), Rat(1, 100)),
                 illegal_penalty))))))
        own_down == RLeq(st.own_base_hp, RInt(0))
        opp_down == RLeq(st.opp_base_hp, RInt(0))
        done == own_down \/ opp_down \/ st.tick >= max_ticks
        terminal_outcome == IF done /\ opp_down /\ ~own_down THEN RInt(2)
                            ELSE IF done /\ own_down /\ ~opp_down THEN RInt(-2)
                            ELSE RInt(0)
    IN  [state |-> st,
         reward |-> RAdd(shaped, terminal_outcome),
         done |-> done,
         terminal_outcome |-> terminal_outcome,
         info |-> [own_base_hp |-> st.own_base_hp, opp_base_hp |-> st.opp_base_hp,
                   own_units |-> st.own_units, opp_units |-> st.opp_units],
         obs |-> BuildFullObservation(st)]
      step[prev \in MockEnvStates, acted \in [state : MockEnvStates, illegal_penalty : Floats],
           max_ticks \in Int] ==
          outcome[prev, income[SimulateBattle(SimulateOpponentPolicy(acted.state))],
                  acted.illegal_penalty, max_ticks]
  IN  step[state, EnvApplyAction(state, action), ticks]

\* nn.Dropout and the attention dropout of GTrXLBlock.forward: active while
\* the module is in training mode
Dropout(training, mask) == IF training THEN mask ELSE 0

\* self.model(static_t, seq_t): where the largest logit of a head of width
\* dim lies, for the parameters, the observation and the dropout masks drawn
Forward(params, obs, mask, dim) ==
    ModelLogits((params + obs.tick + 5 * Dropout(ModuleTraining, mask)) % dim, dim)

\* sample_action(outputs, masks, deterministic=True) and _indices_to_action
EvalAction(params, observation, dropped) ==
  LET act[obs \in Observations, mask \in Int, action_idx \in Int] ==
    LET Pick(h) == ArgMax(MaskedLogits(Forward(params, obs, mask, HeadDim(h)), obs.masks[h]))
    IN  CASE action_idx = 1 -> [action_type |-> 1, unit |-> Pick("unit"), turret |-> -1,
                                slot_index |-> -1]
          [] action_idx = 5 -> [action_type |-> 5, unit |-> -1, turret |-> Pick("turret"),
                                slot_index |-> Pick("buy_slot")]
          [] action_idx = 6 -> [action_type |-> 6, unit |-> -1, turret |-> -1,
                                slot_index |-> Pick("sell_slot")]
          [] OTHER -> [action_type |-> action_idx, unit |-> -1, turret |-> -1,
                       slot_index |-> -1]
      sample[obs \in Observations, mask \in Int] ==
          act[obs, mask,
              ArgMax(MaskedLogits(Forward(params, obs, mask, ActionDim),
                                  obs.masks["action_type"]))]
  IN  sample[observation, dropped]

\* the win test as "the own base still stands"
CountsAsWin_OwnBaseStanding(info) == RLess(RInt(0), info.own_base_hp)

\* if final_info.get("opp_base_hp", 1.0) <= final_info.get("own_base_hp", 0.0)
CountsAsWin(info) == RLeq(info.opp_base_hp, info.own_base_hp)

\* wins / max(1, matches)
WinRate(wins, matches) == Rat(wins, Max2(1, matches))

NoEval == [trace |-> <<>>, winrate |-> RInt(0)]

\* evaluate(matches) is entered: "for idx in range(matches)" and the reset
EvalEnter(matches) ==
    /\ eval_idx = 0
    /\ eval_wins = 0
    /\ eval_trace = <<>>
    /\ eval_env = EnvReset(RuntimeSeed + EvalSeedOffset + 0)
    /\ eval_pc = IF matches > 0 THEN "match" ELSE "returned"
    /\ eval_winrate = WinRate(0, matches)

\* one pass through the body of "while not done": forward pass, arg-max,
\* env.step; when the match is over, the win test and the next match (a new
\* MockSelfPlayEnv reset with the next seed) or the return of the win-rate
EvalTick(mask) ==
    /\ eval_pc = "match"
    /\ \E action \in {EvalAction(model, BuildFullObservation(eval_env), mask)} :
       \E out \in {EnvStepFull(eval_env, action.action_type, MaxTicks)} :
       LET wins == IF out.done /\ CountsAsWin(out.info) THEN eval_wins + 1 ELSE eval_wins
           last == out.done /\ eval_idx + 1 >= EvalMatches
       IN  /\ eval_trace' = Append(eval_trace,
                                   [idx |-> eval_idx, tick |-> eval_env.tick,
                                    action |-> action, obs |-> out.obs,
                                    reward |-> out.reward, done |-> out.done,
                                    terminal_outcome |-> out.terminal_outcome,
                                    info |-> out.info, wins |-> wins])
           /\ eval_wins' = wins
           /\ eval_idx' = IF out.done /\ ~last THEN eval_idx + 1 ELSE eval_idx
           /\ eval_env' = IF out.done /\ ~last
                          THEN EnvReset(RuntimeSeed + EvalSeedOffset + eval_idx + 1)
                          ELSE out.state
           /\ eval_pc' = IF last THEN "returned" ELSE "match"
           /\ eval_winrate' = IF last THEN WinRate(wins, EvalMatches) ELSE eval_winrate
    /\ UNCHANGED <<eval_run, eval_prev>>
    /\ UNCHANGED <<trainerVars, leagueVars, gaeVars, ppoVars, samplerVars>>

\* evaluate(matches) is called once more, the parameters unchanged
EvalAgain ==
    /\ eval_pc = "returned"
    /\ eval_run = 1
    /\ eval_run' = 2
    /\ eval_prev' = [trace |-> eval_trace, winrate |-> eval_winrate]
    /\ eval_idx' = 0
    /\ eval_wins' = 0
    /\ eval_trace' = <<>>
    /\ eval_env' = EnvReset(RuntimeSeed + EvalSeedOffset + 0)
    /\ eval_pc' = IF EvalMatches > 0 THEN "match" ELSE "returned"
    /\ eval_winrate' = WinRate(0, EvalMatches)
    /\ UNCHANGED <<trainerVars, leagueVars, gaeVars, ppoVars, samplerVars>>

EvalInit ==
    /\ eval_run = 1
    /\ eval_prev = NoEval
    /\ EvalEnter(EvalMatches)

EvalIdle ==
    /\ eval_pc = "idle"
    /\ eval_run = 0
    /\ eval_idx = 0
    /\ eval_env = EnvReset(0)
    /\ eval_wins = 0
    /\ eval_trace = <<>>
    /\ eval_winrate = RInt(0)
    /\ eval_prev = NoEval

EvalNext ==
    \/ \E mask \in DropoutMasks : EvalTick(mask)
    \/ EvalAgain

----------------------------------------------------------------------------
(* Specifications.                                                         *)

BaseConfig ==
    [rollout_horizon |-> 1, num_envs |-> 1, total_steps |-> MaxTotalSteps,
     log_interval |-> 1, checkpoint_every |-> 2, eval_every |-> 2,
     entropy_anneal_steps |-> MaxAnnealSteps]

Init == TrainerInit /\ LeagueInit /\ GaeIdle /\ PpoIdle /\ SamplerIdle /\ EvalIdle

\* the matches of the lanes outlast the run: no lane is ever done
Next ==
    \/ \E metrics \in Metrics, winrate \in EvalWinrates :
          TrainIteration(metrics, winrate, NoDones(cfg))
    \/ TrainDone

\* train() on a freshly constructed SelfPlayTrainer, for every configuration
Spec == Init /\ [][Next]_vars

\* a trainer as constructed, under the smallest configuration
TrainerIdle == TrainerInit /\ cfg = BaseConfig

\* a pool that no trainer drives
InitLeague == TrainerIdle /\ LeagueInit /\ GaeIdle /\ PpoIdle /\ SamplerIdle /\ EvalIdle

SpecLeague == InitLeague /\ [][LeagueNext]_vars

\* the two league calls of the trainer's evaluation step, over and over
SpecDeposit == InitLeague /\ [][DepositNext]_vars

\* compute_gae called on a batch, and once more on a batch one entry apart
InitGae == TrainerIdle /\ LeagueInit /\ GaeInit /\ PpoIdle /\ SamplerIdle /\ EvalIdle

SpecGae == InitGae /\ [][GaeNext]_vars

\* one call of PPOUpdater.update
InitPpo == TrainerIdle /\ LeagueInit /\ GaeIdle /\ PpoInit /\ SamplerIdle /\ EvalIdle

SpecPpo == InitPpo /\ [][PpoNext]_vars

\* train() with a time limit: the loop is never abandoned before its
\* condition fails
SpecLive == Init /\ [][Next]_vars /\ WF_vars(Next)

\* the configurations of the rollout: horizon and lane count
RolloutConfigs == {c \in Configs :
                     /\ c.total_steps = MaxTotalSteps
                     /\ c.log_interval = 1
                     /\ c.checkpoint_every = 3
                     /\ c.eval_every = 4
                     /\ c.entropy_anneal_steps = MaxAnnealSteps}

InitRollout ==
    /\ TrainerInit /\ cfg \in RolloutConfigs
    /\ LeagueInit /\ GaeIdle /\ PpoIdle /\ SamplerIdle /\ EvalIdle

NextRollout ==
    \/ \E metrics \in Metrics, winrate \in EvalWinrates, dones \in DonePatterns(cfg) :
          TrainIteration(metrics, winrate, dones)
    \/ TrainDone

\* train() on environments whose matches may end at any step
SpecRollout == InitRollout /\ [][NextRollout]_vars

\* evaluate() called twice on the same trainer, nothing trained in between
InitEval == TrainerIdle /\ LeagueInit /\ GaeIdle /\ PpoIdle /\ SamplerIdle /\ EvalInit

SpecEval == InitEval /\ [][EvalNext]_vars

\* the weights a network may have after construction: one for every place
\* the largest action logit can lie
InitialWeights == 0..(ActionDim - 1)

\* evaluate() called once on a trainer just constructed, whatever weights
\* its network was given
InitWins ==
    /\ \E weights \in InitialWeights : TrainerConstructed(weights)
    /\ cfg = BaseConfig
    /\ LeagueInit /\ GaeIdle /\ PpoIdle /\ SamplerIdle /\ EvalInit

NextWins == \E mask \in DropoutMasks : EvalTick(mask)

SpecWins == InitWins /\ [][NextWins]_vars

\* sampling and stepping on one lane of the mock environment
InitSampler == TrainerIdle /\ LeagueInit /\ GaeIdle /\ PpoIdle /\ SamplerInit /\ EvalIdle

SpecSampler == InitSampler /\ [][SamplerNext]_vars

----------------------------------------------------------------------------
(* Properties of the training loop (checked under Spec).                   *)

\* C2: an iteration whose update returned a NaN or infinite metric logs no
\* progress or alert line, saves no checkpoint, leaves last_good_checkpoint
\* alone, runs no evaluation and deposits nothing in the league pool, and
\* train() stays in its loop.
C2_DivergedIterationHasNoSideEffects ==
    [][(iteration' # iteration /\ diverged') =>
          /\ log_lines' = log_lines
          /\ alerts' = alerts
          /\ checkpoints' = checkpoints
          /\ last_good_checkpoint' = last_good_checkpoint
          /\ evals' = evals
          /\ entries' = entries
          /\ last_call' = last_call
          /\ pc' = "loop"]_vars

\* a diverged iteration that ended on a log, checkpoint and eval boundary
\* with a checkpoint to roll back to
C2_Witness ==
    /\ diverged
    /\ last_good_checkpoint # <<>>
    /\ global_step % cfg.log_interval = 0
    /\ global_step % cfg.checkpoint_every = 0
    /\ global_step % cfg.eval_every = 0
    /\ last_good_checkpoint # <<global_step>>

\* C3 as stated: after the rollback of a diverged iteration with a checkpoint
\* at hand, parameters and optimizer state are what they were when that
\* iteration started.
C3_RollbackRestoresPreIteration ==
    (diverged /\ last_good_checkpoint # <<>>) =>
        (model = pre_model /\ optimizer = pre_optimizer)

\* C3 amended: after such a rollback, parameters and optimizer state are
\* those stored in the last known-good checkpoint.
C3_RollbackRestoresLastCheckpoint ==
    (diverged /\ last_good_checkpoint # <<>>) =>
        /\ model = checkpoints[last_good_checkpoint[1]].model
        /\ optimizer = checkpoints[last_good_checkpoint[1]].optimizer

\* a rollback over a healthy iteration that ran after the checkpoint was
\* saved: the restored parameters are not the pre-iteration ones
C3_Witness ==
    /\ diverged
    /\ last_good_checkpoint # <<>>
    /\ model = checkpoints[last_good_checkpoint[1]].model
    /\ model # pre_model
    /\ model # iteration

\* the linear schedule of section 4.5 at a cumulative step count
LinearEntropy(step) ==
    LET p == AnnealProgress(step, cfg.entropy_anneal_steps)
    IN  RAdd(RMul(EntropyCoefInit, RSub(RInt(1), p)), RMul(EntropyCoefMin, p))

\* C4: the entropy coefficient is the linear interpolation between its
\* initial value and the floor at p = min(1, cumulative steps / anneal
\* steps), the cumulative steps counted either before or after the steps of
\* the last iteration.
C4_EntropyIsLinearInSteps ==
    \/ entropy_coef = LinearEntropy(global_step)
    \/ iteration > 0 /\ entropy_coef = LinearEntropy(global_step - StepsPerIteration(cfg))

----------------------------------------------------------------------------
(* Properties of the league pool.                                          *)

\* C5: promote_if_qualified returns False exactly when the candidate's
\* win-rate is below 0.55, or the baseline is non-empty and every win-rate in
\* it is strictly greater than the candidate's (checked under SpecLeague).
C5_PromotionRule ==
    last_call.op = "promote" =>
        (last_call.result = FALSE <=>
            \/ last_call.candidate.winrate_vs_smart < 55
            \/ /\ last_call.baseline # <<>>
               /\ \A i \in 1..Len(last_call.baseline) :
                      last_call.baseline[i] > last_call.candidate.winrate_vs_smart)

\* the candidate with win-rate 0.70 admitted against {0.60, 0.62, 0.65}
C5_Witness ==
    /\ last_call.op = "promote"
    /\ last_call.candidate.winrate_vs_smart = 70
    /\ last_call.baseline = <<60, 62, 65>>
    /\ last_call.result = TRUE
    /\ Contains(entries, last_call.candidate)

\* C6: after a call of promote_if_qualified that admits the candidate the
\* pool holds at most keep_top_n entries (checked under Spec).
C6_PoolWithinCapacityAfterPromotion ==
    (last_call.op \in {"promote", "deposit"} /\ last_call.result) =>
        Len(entries) <= KeepTopN

\* C7: after the trainer's evaluation step for a candidate with a win-rate
\* below 0.55, which the promotion rule rejects, the candidate is not in
\* LeaguePool.entries and neither top() nor sample_opponent() can return it
\* (checked under Spec).
C7_RejectedCandidateNotInPool ==
    (/\ last_call.op = "deposit"
     /\ last_call.result = FALSE
     /\ last_call.candidate.winrate_vs_smart < 55) =>
        /\ ~Contains(entries, last_call.candidate)
        /\ ~Contains(Top(entries, Len(entries)), last_call.candidate)
        /\ last_call.candidate \notin SampleOpponent(entries, last_good_checkpoint)

\* the smallest win-rate of a non-empty baseline list
LeastOf(baseline) ==
    CHOOSE m \in {baseline[i] : i \in 1..Len(baseline)} :
        \A i \in 1..Len(baseline) : baseline[i] >= m

\* C15 as stated: promote_if_qualified rejects every candidate whose
\* win-rate is not strictly greater than the minimum of the baseline
\* win-rates, a candidate equal to the minimum included.
C15_RejectsNotStrictlyBetter ==
    (/\ last_call.op = "promote"
     /\ last_call.baseline # <<>>
     /\ last_call.candidate.winrate_vs_smart <= LeastOf(last_call.baseline)) =>
        last_call.result = FALSE

\* C15 amended: promote_if_qualified rejects every candidate whose win-rate
\* is strictly below the minimum of the baseline win-rates, and admits one
\* that reaches the minimum and 0.55 (checked under SpecLeague).
C15_RejectsStrictlyWorse ==
    (last_call.op = "promote" /\ last_call.baseline # <<>>) =>
        /\ last_call.candidate.winrate_vs_smart < LeastOf(last_call.baseline) =>
              last_call.result = FALSE
        /\ (/\ last_call.candidate.winrate_vs_smart >= LeastOf(last_call.baseline)
            /\ last_call.candidate.winrate_vs_smart >= 55) =>
              last_call.result = TRUE

\* a candidate at 0.60 admitted against a baseline whose minimum is 0.60 and
\* whose best is above it
C15_Witness ==
    /\ last_call.op = "promote"
    /\ Len(last_call.baseline) = 3
    /\ last_call.candidate.winrate_vs_smart = 60
    /\ LeastOf(last_call.baseline) = 60
    /\ last_call.result = TRUE
    /\ Contains(entries, last_call.candidate)

\* C19: under deposits made the way the trainer makes them the pool never
\* holds more than 3 * keep_top_n entries, and promote_if_qualified puts no
\* entry into the pool that add_checkpoint left out of it (checked under
\* SpecDeposit).
C19_PoolCappedNoReinsertion ==
    /\ [](Len(entries) <= 3 * KeepTopN)
    /\ [][last_call'.op = "promote" =>
            \A i \in 1..Len(entries') : Contains(entries, entries'[i])]_vars

\* a candidate at 0.60 that add_checkpoint cut off a full pool and the
\* promotion rule then turned down
C19_Witness ==
    /\ last_call.op = "promote"
    /\ last_call.candidate.winrate_vs_smart >= 55
    /\ ~Contains(entries, last_call.candidate)
    /\ Len(entries) = 3 * KeepTopN
    /\ evals > 3 * KeepTopN

----------------------------------------------------------------------------
(* Properties of sampling (checked under SpecSampler).                     *)

\* C1: for each of the five heads and every observation the trainer samples
\* on, the index sample_action chose has mask value 1, in stochastic and in
\* deterministic mode.
C1_SampledIndexIsLegal ==
    sample_mode # "none" => \A h \in Heads : obs_masks[h][sampled[h]] = 1

----------------------------------------------------------------------------
(* Properties of compute_gae (checked under SpecGae).                      *)

\* the advantage as the claim defines it: forward from step t, with
\* advantage[horizon] = 0
RECURSIVE AdvantageAt(_, _, _)
AdvantageAt(batch, t, l) ==
    IF t >= batch.horizon THEN RInt(0)
    ELSE LET live == RInt(1 - batch.dones[t][l])
             v_next == IF t < batch.horizon - 1 THEN RInt(batch.values[t + 1][l])
                       ELSE RInt(batch.next_value[l])
             delta == RSub(RAdd(RInt(batch.rewards[t][l]), RMul(Gamma, RMul(v_next, live))),
                           RInt(batch.values[t][l]))
         IN  RAdd(delta, RMul(RMul(Gamma, RMul(GaeLambda, live)), AdvantageAt(batch, t + 1, l)))

\* C8: compute_gae returns advantage[t] = delta[t] + gamma * lambda *
\* (1 - done[t]) * advantage[t+1] with advantage[H] = 0 and delta[t] =
\* reward[t] + gamma * V_next[t] * (1 - done[t]) - value[t], and return[t] =
\* advantage[t] + value[t]; for H = 1 and done = 0 the advantage is
\* reward + gamma * next_value - value.
C8_GaeRecursion ==
    gae_pc = "done" =>
        \A t \in GaeSteps(gae_batch), l \in GaeLanes :
            /\ gae_result.advantages[t][l] = AdvantageAt(gae_batch, t, l)
            /\ gae_result.returns[t][l] =
                   RAdd(gae_result.advantages[t][l], RInt(gae_batch.values[t][l]))
            /\ (gae_batch.horizon = 1 /\ gae_batch.dones[t][l] = 0) =>
                   gae_result.advantages[t][l] =
                       RSub(RAdd(RInt(gae_batch.rewards[t][l]),
                                 RMul(Gamma, RInt(gae_batch.next_value[l]))),
                            RInt(gae_batch.values[t][l]))

\* a batch of the longest horizon with non-zero rewards and values, one lane
\* ending an episode at step 0 and another running through
C8_Witness ==
    /\ gae_pc = "done"
    /\ gae_batch.horizon = MaxGaeHorizon
    /\ gae_batch.horizon > 1
    /\ gae_batch.values[1][0] # 0
    /\ gae_batch.rewards[0][0] # 0
    /\ gae_batch.dones[0][0] = 1
    /\ \A t \in GaeSteps(gae_batch) : gae_batch.dones[t][1] = 0
    /\ gae_result.advantages[0][0] # gae_result.advantages[0][1]

\* the two batches agree on lane l in every done flag and in the rewards
\* and values of the steps up to t
AgreeUpTo(a, b, l, t) ==
    /\ a.horizon = b.horizon
    /\ \A s \in GaeSteps(a) : a.dones[s][l] = b.dones[s][l]
    /\ \A s \in 0..t : a.rewards[s][l] = b.rewards[s][l] /\ a.values[s][l] = b.values[s][l]

\* C9: if done[t] = 1 in a lane, the advantages and returns of the steps up
\* to t of that lane are the same for two batches that differ only in
\* rewards or values after step t of that lane, in the bootstrap value, or in
\* the data of other lanes.
C9_NoLeakAcrossDone ==
    gae_prev_batch # NoBatch =>
        \A l \in GaeLanes, t \in GaeSteps(gae_batch) :
            (gae_batch.dones[t][l] = 1 /\ AgreeUpTo(gae_prev_batch, gae_batch, l, t)) =>
                \A s \in 0..t :
                    /\ gae_result.advantages[s][l] = gae_prev_result.advantages[s][l]
                    /\ gae_result.returns[s][l] = gae_prev_result.returns[s][l]

\* a reward spike right after an episode boundary: it moves the advantage
\* of its own step and leaves the step of the boundary alone
C9_Witness ==
    /\ gae_prev_batch # NoBatch
    /\ gae_batch.horizon > 1
    /\ gae_batch.dones[0][0] = 1
    /\ gae_batch.rewards[1][0] = gae_prev_batch.rewards[1][0] + Spike
    /\ gae_result.advantages[1][0] # gae_prev_result.advantages[1][0]
    /\ gae_result.advantages[0][0] = gae_prev_result.advantages[0][0]

----------------------------------------------------------------------------
(* Properties of PPOUpdater.update (checked under SpecPpo).                *)

RECURSIVE KlSum(_, _)
KlSum(trace, n) == IF n = 0 THEN 0 ELSE trace[n].kl + KlSum(trace, n - 1)

\* the mini-batches per epoch, ceil(batch_size / minibatch_size)
MiniBatchesPerEpoch(c) == (c.batch_size + c.minibatch_size - 1) \div c.minibatch_size

\* mini-batch n was the last one processed in its epoch
EndsEpoch(trace, n) == n = Len(trace) \/ trace[n + 1].epoch # trace[n].epoch

\* the running average KL over the first n mini-batches exceeds kl_target
AverageOverTarget(trace, n) == KlSum(trace, n) > KlTarget * n

\* C10: after a mini-batch whose KL exceeds kl_hard_stop no further
\* mini-batch of that epoch is processed; after an epoch at whose end the
\* running average KL exceeds kl_target no further epoch is started; if
\* neither threshold is ever exceeded exactly ppo_epochs * ceil(batch_size /
\* minibatch_size) mini-batches are processed; and the returned updates
\* metric is the number of optimizer steps taken.
C10_AdaptiveStopping ==
    /\ \A n \in 1..(Len(ppo_trace) - 1) :
          /\ ppo_trace[n].kl > KlHardStop => ppo_trace[n + 1].epoch > ppo_trace[n].epoch
          /\ ppo_trace[n + 1].epoch # ppo_trace[n].epoch => ~AverageOverTarget(ppo_trace, n)
    /\ (/\ ppo_trace # <<>>
        /\ ppo_pc = "minibatch") =>
          (ppo_trace[Len(ppo_trace)].epoch = ppo_epoch =>
              ppo_trace[Len(ppo_trace)].kl <= KlHardStop)
    /\ ppo_pc = "returned" =>
          /\ ppo_metrics.updates = ppo_optimizer_steps
          /\ ppo_optimizer_steps = Len(ppo_trace)
          /\ (/\ \A n \in 1..Len(ppo_trace) : ppo_trace[n].kl <= KlHardStop
              /\ \A n \in 1..Len(ppo_trace) :
                    EndsEpoch(ppo_trace, n) => ~AverageOverTarget(ppo_trace, n)) =>
                Len(ppo_trace) = ppo_cfg.ppo_epochs * MiniBatchesPerEpoch(ppo_cfg)

\* a returned call in which a hard stop cut an epoch short, the next epoch
\* started all the same, and a soft stop then ended the call early
C10_Witness ==
    /\ ppo_pc = "returned"
    /\ \E n \in 1..(Len(ppo_trace) - 1) :
          /\ ppo_trace[n].kl > KlHardStop
          /\ ppo_trace[n].start + ppo_cfg.minibatch_size < ppo_cfg.batch_size
          /\ ppo_trace[n + 1].epoch = ppo_trace[n].epoch + 1
    /\ ppo_metrics.updates < ppo_cfg.ppo_epochs * MiniBatchesPerEpoch(ppo_cfg)
    /\ ppo_metrics.updates = Len(ppo_trace)

----------------------------------------------------------------------------
(* Properties of the training loop: cadences, step counter, rollback        *)
(* without a checkpoint, deposits, seeds, termination, entropy schedule.    *)

\* the step counter reached or passed a multiple of every on its way from
\* before to after
Crosses(before, after, every) == after \div every > before \div every

\* C11: in every non-divergent iteration during which the cumulative step
\* counter reaches or passes a multiple of checkpoint_every a checkpoint is
\* saved and becomes last_good_checkpoint, and likewise a progress line is
\* printed for log_interval and an evaluation run for eval_every (checked
\* under Spec).
C11_SideEffectsOnEveryBoundaryCrossed ==
    [][(iteration' # iteration /\ ~diverged') =>
          /\ Crosses(global_step, global_step', cfg.checkpoint_every) =>
                /\ global_step' \in DOMAIN checkpoints'
                /\ last_good_checkpoint' = <<global_step'>>
          /\ Crosses(global_step, global_step', cfg.log_interval) =>
                log_lines' = log_lines + 1
          /\ Crosses(global_step, global_step', cfg.eval_every) =>
                evals' = evals + 1]_vars

\* C12: after k iterations global_step is k * rollout_horizon * num_envs,
\* diverged iterations included; in every iteration each lane is stepped
\* exactly rollout_horizon times, whatever lanes were done and reset; and
\* global_step changes only by an iteration, by rollout_horizon * num_envs
\* (checked under SpecRollout).
C12_StepCounterAdvance ==
    /\ [](global_step = iteration * cfg.rollout_horizon * cfg.num_envs)
    /\ [](iteration > 0 => \A l \in Lanes(cfg) : lane_steps[l] = cfg.rollout_horizon)
    /\ [][global_step' # global_step =>
            /\ iteration' = iteration + 1
            /\ global_step' = global_step + cfg.rollout_horizon * cfg.num_envs]_vars

\* a rolled-back iteration of two lanes and two steps, with a lane reset in
\* some rollout, after an earlier iteration
C12_Witness ==
    /\ diverged
    /\ iteration >= 2
    /\ cfg.num_envs = 2
    /\ cfg.rollout_horizon = 2
    /\ Len(reset_seeds) > cfg.num_envs
    /\ global_step = iteration * 4

\* C14: when an iteration's metrics are non-finite and no checkpoint has
\* been saved yet, parameters and optimizer state stay as the update of that
\* iteration left them, nothing is saved or loaded, and train() stays in its
\* loop (checked under Spec).
C14_NoCheckpointNoRollback ==
    [][(iteration' # iteration /\ diverged' /\ last_good_checkpoint = <<>>) =>
          /\ model' = iteration'
          /\ optimizer' = iteration'
          /\ last_good_checkpoint' = <<>>
          /\ checkpoints' = checkpoints
          /\ pc' = "loop"]_vars

\* a second iteration that diverged before any checkpoint was saved
C14_Witness ==
    /\ diverged
    /\ last_good_checkpoint = <<>>
    /\ iteration >= 2
    /\ model = iteration
    /\ model # pre_model
    /\ pc = "loop"

\* C16: every entry the trainer deposits names the checkpoint saved at the
\* entry's step, and the win-rate of a deposit was measured on the
\* parameters that checkpoint stores, the live parameters at the deposit
\* (checked under Spec).
C16_DepositedTupleIsConsistent ==
    /\ \A i \in 1..Len(entries) : entries[i].checkpoint_path = entries[i].steps
    /\ last_call.op = "deposit" =>
          last_call.candidate.checkpoint_path = last_call.candidate.steps
    /\ (last_call.op = "deposit" /\ last_call.candidate.steps = global_step) =>
          checkpoints[last_call.candidate.checkpoint_path].model = model

\* C17: no two resets of training lanes, the initial ones included, are
\* given the same seed (checked under SpecRollout).
C17_ResetSeedsAreFresh ==
    \A i, j \in 1..Len(reset_seeds) : reset_seeds[i] = reset_seeds[j] => i = j

\* ceil(total_steps / (rollout_horizon * num_envs)), 0 for total_steps <= 0
IterationsNeeded(c) ==
    IF c.total_steps <= 0 THEN 0
    ELSE (c.total_steps + c.rollout_horizon * c.num_envs - 1)
            \div (c.rollout_horizon * c.num_envs)

\* C18: train() reaches "training complete", and when it does it has run
\* exactly ceil(total_steps / (rollout_horizon * num_envs)) iterations, none
\* for total_steps <= 0, whichever iterations diverged (checked under
\* SpecLive).
C18_TrainTerminates ==
    /\ <>(pc = "done")
    /\ [](pc = "done" => iteration = IterationsNeeded(cfg))

\* a finished run whose last iteration overshot total_steps and diverged
C18_Witness ==
    /\ pc = "done"
    /\ iteration > 1
    /\ global_step > cfg.total_steps
    /\ diverged
    /\ iteration * cfg.rollout_horizon * cfg.num_envs >= cfg.total_steps
    /\ (iteration - 1) * cfg.rollout_horizon * cfg.num_envs < cfg.total_steps

\* C20: the entropy coefficient stays between entropy_coef_min and its
\* initial value, never increases, rollbacks included, and an iteration
\* that starts with at least entropy_anneal_steps cumulative steps leaves it
\* at entropy_coef_min (checked under Spec).
C20_EntropyCoefWithinRangeAndFalling ==
    /\ [](RLeq(EntropyCoefMin, entropy_coef) /\ RLeq(entropy_coef, EntropyCoefInit))
    /\ [][RLeq(entropy_coef', entropy_coef)]_vars
    /\ [][(iteration' # iteration /\ global_step >= cfg.entropy_anneal_steps) =>
            entropy_coef' = EntropyCoefMin]_vars
    /\ [][(iteration' # iteration /\ diverged' /\ entropy_coef = EntropyCoefMin) =>
            entropy_coef' = EntropyCoefMin]_vars

\* a rollback to a checkpoint in an iteration that started past the anneal
\* steps, the coefficient having fallen step by step to the floor
C20_Witness ==
    /\ diverged
    /\ last_good_checkpoint # <<>>
    /\ global_step - StepsPerIteration(cfg) >= cfg.entropy_anneal_steps
    /\ cfg.entropy_anneal_steps > StepsPerIteration(cfg)
    /\ entropy_coef = EntropyCoefMin

----------------------------------------------------------------------------
(* Properties of evaluate() (checked under SpecEval and SpecWins).         *)

\* the first n steps of two calls played the same matches with the same
\* actions
SameActionsUpTo(a, b, n) ==
    \A m \in 1..n : /\ a[m].idx = b[m].idx
                    /\ a[m].tick = b[m].tick
                    /\ a[m].action = b[m].action

\* C13: two calls of evaluate() with the same runtime seed and the same
\* parameters return the same win-rate and take, match by match and tick by
\* tick, the same actions; and the environment gives the same observations,
\* rewards and done flags for the same reset seed and the same actions.
C13_EvaluateIsDeterministic ==
    /\ (eval_run = 2 /\ eval_pc = "returned") =>
          /\ eval_winrate = eval_prev.winrate
          /\ Len(eval_trace) = Len(eval_prev.trace)
          /\ SameActionsUpTo(eval_trace, eval_prev.trace, Len(eval_trace))
    /\ eval_run = 2 =>
          \A n \in 1..Min2(Len(eval_trace), Len(eval_prev.trace)) :
              SameActionsUpTo(eval_trace, eval_prev.trace, n) =>
                  /\ eval_trace[n].obs = eval_prev.trace[n].obs
                  /\ eval_trace[n].reward = eval_prev.trace[n].reward
                  /\ eval_trace[n].done = eval_prev.trace[n].done

\* the steps of a call of evaluate() that ended a match
MatchEnds(trace) == {n \in 1..Len(trace) : trace[n].done}

\* evaluate() did "wins += 1" after the match that step n ended
CountedAsWin(trace, n) ==
    trace[n].wins = (IF n = 1 THEN 0 ELSE trace[n - 1].wins) + 1

\* the outcome step() scores as a win: the opponent's base is down, the own
\* base stands, terminal_outcome = 2.0
EnvScoresWin(e) ==
    /\ e.done
    /\ RLeq(e.info.opp_base_hp, RInt(0))
    /\ RLess(RInt(0), e.info.own_base_hp)
    /\ e.terminal_outcome = RInt(2)

\* the match ended at max_ticks with both bases standing
TimedOut(e) ==
    /\ e.done
    /\ RLess(RInt(0), e.info.opp_base_hp)
    /\ RLess(RInt(0), e.info.own_base_hp)

\* the match ended with both bases destroyed
BothDestroyed(e) ==
    /\ e.done
    /\ RLeq(e.info.opp_base_hp, RInt(0))
    /\ RLeq(e.info.own_base_hp, RInt(0))

============================================================================
